---- MODULE Spec2Model ----
(***************************************************************************)
(* One Stream Deck button of the counter plugin: a Timer (count-down), a   *)
(* Stopwatch (count-up) or a Counter.  The event thread runs one handler   *)
(* at a time (init, did_receive_settings, key_down, key_up, teardown);     *)
(* the long-press workers spawned by key_down and the tick loops spawned   *)
(* by start_tick run concurrently with it.  A handler is cut into steps at  *)
(* its accesses to what the threads share (the atomics and the globals     *)
(* store), so that handlers and workers interleave the way the threads do. *)
(* Consecutive accesses are kept in one step only where no other thread    *)
(* can tell the difference: the two stores of stop_tick and of start_tick, *)
(* the two loads a worker or a tick loop checks before acting, and a store *)
(* followed by a render.                                                   *)
(*                                                                         *)
(* thread::sleep is abstracted: a sleeping worker may wake at any later    *)
(* step.  A press is "held past the delay" when its worker wakes while the *)
(* press is still down; it is "short" when key_up arrives first.           *)
(***************************************************************************)
EXTENDS Integers, Sequences, FiniteSets, TLC

\* ---------------------------------------------------------------- bounds
MaxPress == 2       \* key_down events per button instance
MaxEvents == 3      \* tick wake-ups, settings changes and teardowns in
                    \* one run
MaxDown == 2        \* longest time since the previous instance's teardown, in ticks
WordBits == 20      \* width of the model's unsigned words
MaxSaved == 3       \* largest value saved in an anchor round trip, in ticks
MaxTickSeed == 21   \* largest value a lone tick loop starts from, in ticks
MaxTicks == 12      \* wake-ups of a lone tick loop in one run
MaxTokens == 4      \* longest token sequence handed to eval_rpn
MaxChanges == 1     \* counter changes a Computed button is told of

\* ------------------------------------------------------ program constants
TICK_MS == 100
DEFAULT_DURATION_MS == 60000
DEFAULT_REMAINING_MS == 60000
DEFAULT_DURATION_SECS == 60
FIRST_INIT_DURATION_MS == 60000

WordMax == 2^WordBits - 1

Kinds == {"timer", "stopwatch", "counter"}
CfgSecs == {1, DEFAULT_DURATION_SECS}

VARIABLES
    kind,                 \* which action the button is
    cfgSecs,              \* durationSecs held by the host for this button
    value,                \* remaining_ms (timer) / elapsed_ms (stopwatch)
    cancel, epoch, epoch_seq, running,
    holding, press_seq, active_press_id, long_fired_press_id,
    duration_ms,
    snap,                 \* globals["timers"|"stopwatches"][ctx]
    peer,                 \* a second button of the same kind: its entry in
                          \* the same globals object and its own fields
    now,                  \* wall clock, unix ms
    display,              \* last image set on the key
    alerts,               \* show_alert calls since the value was last reset
    ctl,                  \* the event thread: handler position and local
    workers,              \* long-press workers, by press id
    loops,                \* tick-loop threads
    events,               \* how many of the bounded events have happened
    overlap,              \* history: a stop, start or reset has happened
                          \* while a tick iteration was in flight
    settingsPending,      \* a did_receive_settings the host still owes
    cset,                 \* the Counter's / Computed's parsed settings
    cstore,               \* globals["counters"][key]
    has_active,           \* CounterAction.active is Some
    bus                   \* published COUNTER_CHANGED events not yet delivered

tickVars == <<value, cancel, epoch, epoch_seq, running>>
pressVars == <<holding, press_seq, active_press_id, long_fired_press_id>>
cfgVars == <<kind, cfgSecs, cset>>
counterVars == <<cstore, has_active, bus>>
boundVars == <<events, overlap>>
storeVars == <<snap, peer>>
vars == <<kind, cfgSecs, value, cancel, epoch, epoch_seq, running, holding,
          press_seq, active_press_id, long_fired_press_id, duration_ms, snap,
          peer, now, display, alerts, ctl, workers, loops, events, overlap,
          settingsPending, cset, cstore, has_active, bus>>

\* --------------------------------------------------------------- helpers
Min(a, b) == IF a <= b THEN a ELSE b

saturating_sub(a, b) == IF a >= b THEN a - b ELSE 0

saturating_add(a, b) == IF a >= WordMax - b THEN WordMax ELSE a + b

saturating_mul(a, b) == IF a * b >= WordMax THEN WordMax ELSE a * b

IsTimer == kind = "timer"
IsStopwatch == kind = "stopwatch"
IsCounter == kind = "counter"

\* A persisted duration snapshot; has = FALSE is "no entry for this context".
NoSnap == [has |-> FALSE, v |-> 0, anchored |-> FALSE, anchor |-> 0]

save_paused(v) == [has |-> TRUE, v |-> v, anchored |-> FALSE, anchor |-> 0]

save_running(v, t) == [has |-> TRUE, v |-> v, anchored |-> TRUE, anchor |-> t]

\* The context ids of the button modelled here and of the second button.
Self == "A"
Peer == "B"

\* globals["timers"|"stopwatches"]: the object both buttons' entries live
\* in, as a map from context id to entry.
timers == [c \in {Self, Peer} |-> IF c = Self THEN snap ELSE peer.snap]

\* with_mut that puts a fresh object holding only the new entry in place of
\* the "timers" object.
map_insert_FreshObject(m, c, e) ==
    [x \in DOMAIN m |-> IF x = c THEN e ELSE NoSnap]

\* map.insert(ctx_id, entry) and map.remove(ctx_id) inside with_mut
map_insert(m, c, e) == [m EXCEPT ![c] = e]

map_remove(m, c) == [m EXCEPT ![c] = NoSnap]

\* The globals object is m when with_mut returns.
Stored(m) == snap' = m[Self] /\ peer' = [peer EXCEPT !.snap = m[Peer]]

\* The second button: stopped with a paused entry, or running with an
\* anchored one.  Its fields are its own Arcs (Default::default()).
PeerStopped ==
    [snap |-> save_paused(3 * 100), value |-> 3 * 100, running |-> FALSE,
     cancel |-> TRUE, epoch |-> 2, epoch_seq |-> 2, holding |-> FALSE,
     press_seq |-> 1, active_press_id |-> 1, long_fired_press_id |-> 0]

PeerRunning ==
    [snap |-> save_running(5 * 100, 0), value |-> 5 * 100, running |-> TRUE,
     cancel |-> FALSE, epoch |-> 1, epoch_seq |-> 1, holding |-> FALSE,
     press_seq |-> 1, active_press_id |-> 1, long_fired_press_id |-> 0]

load_state_NoElapsed(s, t) == IF ~s.has THEN <<0, FALSE>> ELSE <<s.v, s.anchored>>

\* load_state with a wrapping now - anchor in place of the saturating one.
load_state_WrappingElapsed(s, t) ==
    IF ~s.has THEN <<0, FALSE>>
    ELSE IF s.anchored
         THEN LET elapsed == (t - s.anchor) % (WordMax + 1)
              IN IF IsTimer THEN <<saturating_sub(s.v, elapsed), TRUE>>
                 ELSE <<saturating_add(s.v, elapsed), TRUE>>
         ELSE <<s.v, FALSE>>

\* load_state: <<value, was_running>> of a snapshot read at wall-clock time t.
load_state(s, t) ==
    IF ~s.has THEN <<0, FALSE>>
    ELSE IF s.anchored
         THEN IF IsTimer
              THEN <<saturating_sub(s.v, saturating_sub(t, s.anchor)), TRUE>>
              ELSE <<saturating_add(s.v, saturating_sub(t, s.anchor)), TRUE>>
         ELSE <<s.v, FALSE>>

render_time_mmss(secs) == <<Min(secs \div 60, 99), secs % 60>>

render_time_hhmmss(secs) ==
    IF secs >= 3600
    THEN <<secs \div 3600, (secs % 3600) \div 60, secs % 60>>
    ELSE <<secs \div 60, secs % 60>>

render_time(secs) ==
    IF IsTimer THEN render_time_mmss(secs) ELSE render_time_hhmmss(secs)

Blank == <<>>

\* ------------------------------------------------------------ thread state
\* A long-press worker: its position, the duration_ms it captured (the
\* Counter's worker keeps the base it read there), and the history of its
\* press: woke (the press was still down when the worker woke), fired (the
\* worker stored the fired marker), up (the branch key_up took for the
\* press), expired (the count-down was at 0 when key_down arrived).
NoWorker == [pc |-> "none", dur |-> 0, woke |-> FALSE, fired |-> FALSE,
             up |-> "none", expired |-> FALSE]

InFlight == {"t_store"}

\* A tick loop is inside an iteration: it has loaded the value and has not
\* stored yet.
Busy == \E i \in DOMAIN loops : loops[i].pc \in InFlight

\* The step stops, starts or resets the ticking.
Churn == overlap' = (overlap \/ Busy)

RemoveAt(s, i) == [j \in 1..(Len(s) - 1) |-> IF j < i THEN s[j] ELSE s[j + 1]]

Idle == ctl.pc = "idle"

Goto(pc) == ctl' = [pc |-> pc, tmp |-> 0]

GotoWith(pc, t) == ctl' = [pc |-> pc, tmp |-> t]

\* The press the key is currently in: key_down has arrived for it.
CurPress == press_seq + (IF ctl.pc \in {"kd_holding", "kd_active"} THEN 1 ELSE 0)

\* stop_tick: cancel.store(true); epoch_seq += 1; epoch.store(epoch_seq)
stop_tick ==
    /\ cancel' = TRUE
    /\ epoch_seq' = (epoch_seq + 1) % (WordMax + 1)
    /\ epoch' = (epoch_seq + 1) % (WordMax + 1)

\* start_tick: epoch_seq += 1; epoch.store(epoch_seq); cancel.store(false);
\* the loop is spawned with my_epoch = epoch_seq and sleeps.
start_tick(ls) ==
    /\ epoch_seq' = (epoch_seq + 1) % (WordMax + 1)
    /\ epoch' = (epoch_seq + 1) % (WordMax + 1)
    /\ cancel' = FALSE
    /\ loops' = Append(ls, [my |-> (epoch_seq + 1) % (WordMax + 1),
                            pc |-> "sleep", cur |-> 0])

Held == holding \/ ctl.pc = "kd_holding"


\* ------------------------------------------------------------ the Counter
Ops == {"none", "add", "subtract", "multiply", "divide", "reset", "set"}

IntMax == 2^(WordBits - 1) - 1
IntMin == -(2^(WordBits - 1))

Clamp(x) == IF x > IntMax THEN IntMax ELSE IF x < IntMin THEN IntMin ELSE x

Abs(x) == IF x < 0 THEN -x ELSE x

\* Rust's integer division truncates toward zero.
TruncDiv(a, b) ==
    IF (a < 0) = (b < 0) THEN Abs(a) \div Abs(b) ELSE -(Abs(a) \div Abs(b))

\* i64::saturating_mul, without ever forming a product wider than the word.
saturating_mul_i64(a, b) ==
    IF a = 0 \/ b = 0 THEN 0
    ELSE IF Abs(a) <= (IntMax + 1) \div Abs(b) THEN Clamp(a * b)
    ELSE IF (a < 0) = (b < 0) THEN IntMax ELSE IntMin

\* `base / n` on i64 panics ("attempt to divide with overflow") when the
\* quotient does not fit the type: the only such case is i64::MIN / -1.
DivideOverflows(op, base, n) == op = "divide" /\ base = IntMin /\ n = -1

\* apply with Divide by 0 yielding 0 instead of the base.
apply_DivZeroIsZero(op, base, n, init) ==
    CASE op = "none" -> base
      [] op = "add" -> Clamp(base + n)
      [] op = "subtract" -> Clamp(base - n)
      [] op = "multiply" -> saturating_mul_i64(base, n)
      [] op = "divide" -> IF n = 0 THEN 0 ELSE TruncDiv(base, n)
      [] op = "reset" -> init
      [] op = "set" -> n

\* The value apply returns; where DivideOverflows holds it returns none and
\* the calling thread unwinds instead.
apply(op, base, n, init) ==
    CASE op = "none" -> base
      [] op = "add" -> Clamp(base + n)
      [] op = "subtract" -> Clamp(base - n)
      [] op = "multiply" -> saturating_mul_i64(base, n)
      [] op = "divide" -> IF n = 0 THEN base ELSE TruncDiv(base, n)
      [] op = "reset" -> init
      [] op = "set" -> n

CounterCfgs ==
    { [initial_value |-> 0, short_action |-> "add", short_value |-> 1,
       long_action |-> "reset", long_value |-> 0],
      [initial_value |-> 0, short_action |-> "add", short_value |-> 1,
       long_action |-> "set", long_value |-> 5],
      [initial_value |-> 0, short_action |-> "divide", short_value |-> 0,
       long_action |-> "set", long_value |-> 5],
      [initial_value |-> 0, short_action |-> "add", short_value |-> 1,
       long_action |-> "divide", long_value |-> 0],
      [initial_value |-> 0, short_action |-> "reset", short_value |-> 0,
       long_action |-> "reset", long_value |-> 0],
      [initial_value |-> 0, short_action |-> "set", short_value |-> 5,
       long_action |-> "none", long_value |-> 0],
      [initial_value |-> IntMin, short_action |-> "divide",
       short_value |-> -1, long_action |-> "divide", long_value |-> -1] }

DefaultCounterCfg ==
    [initial_value |-> 0, short_action |-> "add", short_value |-> 1,
     long_action |-> "none", long_value |-> 0]

NoVal == [has |-> FALSE, v |-> 0]

read_counter(st, initial) == IF st.has THEN st.v ELSE initial

init_or_load_counter(st, initial) ==
    IF st.has THEN st ELSE [has |-> TRUE, v |-> initial]

write_counter(v) == [has |-> TRUE, v |-> v]

render_number(v) == <<v>>

\* ------------------------------------------------------------------ Init
DefaultValue(k) == IF k = "timer" THEN DEFAULT_REMAINING_MS ELSE 0

DefaultDuration(k) == IF k = "timer" THEN DEFAULT_DURATION_MS ELSE 0

\* What an earlier instance of the button may have left in the globals: no
\* entry, a paused value, or a running value anchored at its teardown (the
\* wall clock at 0).
InitSnaps(k) ==
    IF k = "timer"
    THEN {NoSnap, save_paused(TICK_MS), save_running(2 * TICK_MS, 0)}
    ELSE IF k = "stopwatch"
    THEN {NoSnap, save_running(9 * TICK_MS, 0)}
    ELSE {NoSnap}

InitButton ==
    /\ kind \in Kinds
    /\ cfgSecs \in (IF kind = "timer" THEN CfgSecs ELSE {DEFAULT_DURATION_SECS})
    /\ cset \in (IF kind = "counter" THEN CounterCfgs ELSE {DefaultCounterCfg})
    /\ snap \in InitSnaps(kind)
    /\ value = DefaultValue(kind)
    /\ cancel = FALSE /\ epoch = 0 /\ epoch_seq = 0 /\ running = FALSE
    /\ holding = FALSE /\ press_seq = 0
    /\ active_press_id = 0 /\ long_fired_press_id = 0
    /\ duration_ms = DefaultDuration(kind)
    /\ now \in {d * TICK_MS : d \in (IF snap.anchored THEN 1..MaxDown ELSE {0})}
    /\ display = Blank
    /\ alerts = 0
    /\ ctl = [pc |-> "new", tmp |-> 0]
    /\ workers = [p \in 1..MaxPress |-> NoWorker]
    /\ loops = <<>>
    /\ events = 0
    /\ overlap = FALSE
    /\ settingsPending = FALSE
    /\ cstore = NoVal
    /\ has_active = FALSE
    /\ bus = <<>>

\* The state after construction, next to a stopped second button.
Init == InitButton /\ peer = PeerStopped

\* ------------------------------------------------------------------ init
\* Action::init of the three actions.  No other thread of the instance
\* exists yet, so the handler is one step.
InitHandler ==
    /\ ctl.pc = "new"
    /\ Goto("idle")
    /\ settingsPending' = TRUE
    /\ LET ls == load_state(snap, now)
           v  == ls[1]
           was_running == ls[2]
           restore == IF IsTimer THEN v > 0 ELSE IsStopwatch
           expired == IsTimer /\ restore /\ was_running /\ v = 0
           start == restore /\ was_running /\ ~expired
       IN /\ value' = IF restore THEN v ELSE value
          /\ display' = IF restore THEN render_time(v \div 1000) ELSE display
          /\ running' = IF expired THEN FALSE
                        ELSE IF restore THEN was_running ELSE running
          /\ alerts' = IF expired THEN Min(alerts + 1, 2) ELSE alerts
          /\ Stored(IF start
                    THEN map_insert(timers, Self, save_running(v, now))
                    ELSE IF expired
                    THEN map_insert(timers, Self, save_paused(0))
                    ELSE timers)
          /\ IF start THEN start_tick(loops)
             ELSE UNCHANGED <<epoch_seq, epoch, cancel, loops>>
    /\ UNCHANGED <<pressVars, cfgVars, counterVars, boundVars, duration_ms, now,
                   workers>>

\* -------------------------------------------------- did_receive_settings
\* parse_settings: (duration_secs.max(1)).saturating_mul(1000)
new_duration_ms(secs) == saturating_mul(IF secs < 1 THEN 1 ELSE secs, 1000)

\* The host answers get_settings with the settings it holds, and sends the
\* settings again whenever the property inspector saves them.  Timer, the
\* duration differs: stop_tick, and the handler goes on below.  Timer, same
\* duration: the "first-ever init" branch loads remaining_ms and goes on
\* below, or the paused value is rendered.  Counter: the counter is loaded
\* (or initialised) and rendered.  Stopwatch: only long_press_ms is read.
DidReceiveSettings ==
    /\ Idle
    /\ \/ settingsPending /\ UNCHANGED <<cfgSecs, events>>
       \/ /\ ~settingsPending
          /\ events < MaxEvents
          /\ events' = events + 1
          /\ cfgSecs' \in (IF IsTimer THEN CfgSecs ELSE {cfgSecs})
    /\ settingsPending' = FALSE
    /\ IF IsTimer /\ new_duration_ms(cfgSecs') # duration_ms
       THEN /\ stop_tick /\ Churn
            /\ GotoWith("drs_value", cfgSecs')
            /\ UNCHANGED <<display, cstore, loops>>
       ELSE IF IsTimer /\ duration_ms = FIRST_INIT_DURATION_MS /\ value = 0
       THEN /\ GotoWith("drs_first", cfgSecs')
            /\ UNCHANGED <<cancel, epoch, epoch_seq, loops, display, cstore, overlap>>
       ELSE IF IsTimer /\ ~running
       THEN /\ display' = render_time_mmss(value \div 1000)
            /\ Goto("idle")
            /\ UNCHANGED <<cancel, epoch, epoch_seq, loops, cstore, overlap>>
       ELSE IF IsCounter
       THEN /\ cstore' = init_or_load_counter(cstore, cset.initial_value)
            /\ display' = render_number(read_counter(cstore, cset.initial_value))
            /\ Goto("idle")
            /\ UNCHANGED <<cancel, epoch, epoch_seq, loops, overlap>>
       ELSE /\ Goto("idle")
            /\ UNCHANGED <<cancel, epoch, epoch_seq, loops, display, cstore, overlap>>
    /\ UNCHANGED <<kind, cset, value, running, pressVars, duration_ms, storeVars,
                   now, alerts, workers, has_active, bus>>

SettingsStoreValue_KeepValue ==
    /\ ctl.pc = "drs_value"
    /\ running' = FALSE
    /\ duration_ms' = new_duration_ms(ctl.tmp)
    /\ Churn
    /\ GotoWith("drs_clear", ctl.tmp)
    /\ UNCHANGED <<cfgVars, value, alerts, cancel, epoch, epoch_seq, pressVars,
                   storeVars, now, display, workers, loops, events,
                   settingsPending, counterVars>>

\* running = false; duration_ms = new; remaining_ms.store(duration_ms)
SettingsStoreValue ==
    /\ ctl.pc = "drs_value"
    /\ running' = FALSE
    /\ duration_ms' = new_duration_ms(ctl.tmp)
    /\ value' = new_duration_ms(ctl.tmp)
    /\ alerts' = 0
    /\ Churn
    /\ GotoWith("drs_clear", ctl.tmp)
    /\ UNCHANGED <<cfgVars, cancel, epoch, epoch_seq, pressVars, storeVars, now,
                   display, workers, loops, events, settingsPending,
                   counterVars>>

\* clear_state; render_time_mmss(duration_secs)
SettingsClear ==
    /\ ctl.pc = "drs_clear"
    /\ Stored(map_remove(timers, Self))
    /\ display' = render_time_mmss(IF ctl.tmp < 1 THEN 1 ELSE ctl.tmp)
    /\ Goto("idle")
    /\ UNCHANGED <<cfgVars, tickVars, pressVars, duration_ms, now, alerts,
                   workers, loops, boundVars, settingsPending, counterVars>>

\* "First-ever init": remaining_ms.store(new_duration_ms); render
SettingsFirstInit ==
    /\ ctl.pc = "drs_first"
    /\ value' = new_duration_ms(ctl.tmp)
    /\ duration_ms' = new_duration_ms(ctl.tmp)
    /\ alerts' = 0
    /\ display' = render_time_mmss(IF ctl.tmp < 1 THEN 1 ELSE ctl.tmp)
    /\ Churn
    /\ Goto("idle")
    /\ UNCHANGED <<cfgVars, cancel, epoch, epoch_seq, running, pressVars, storeVars,
                   now, workers, loops, events, settingsPending,
                   counterVars>>

\* --------------------------------------------------------------- teardown
\* Timer/Stopwatch: stop_tick.  The Counter has no teardown of its own.
Teardown ==
    /\ Idle /\ ~settingsPending
    /\ events < MaxEvents
    /\ events' = events + 1
    /\ IF IsCounter
       THEN Goto("torn") /\ UNCHANGED <<cancel, epoch, epoch_seq, overlap>>
       ELSE /\ stop_tick /\ Churn
            /\ Goto("td_load")
    /\ UNCHANGED <<loops, cfgVars, value, running, pressVars, duration_ms, storeVars, now,
                   display, alerts, workers, settingsPending, counterVars>>

TeardownLoad ==
    /\ ctl.pc = "td_load"
    /\ GotoWith("td_save", value)
    /\ UNCHANGED <<cfgVars, tickVars, pressVars, duration_ms, storeVars, now,
                   display, alerts, workers, loops, boundVars,
                   settingsPending, counterVars>>

\* save_running or save_paused; the instance is gone afterwards
TeardownSave ==
    /\ ctl.pc = "td_save"
    /\ Stored(map_insert(timers, Self,
                         IF running THEN save_running(ctl.tmp, now)
                         ELSE save_paused(ctl.tmp)))
    /\ Goto("torn")
    /\ UNCHANGED <<cfgVars, tickVars, pressVars, duration_ms, now, display,
                   alerts, workers, loops, boundVars, settingsPending,
                   counterVars>>

\* --------------------------------------------------------------- key_down
\* Timer/Stopwatch: holding.store(true).  Counter: the settings are parsed,
\* the counter is loaded (or initialised) and shown, active = Some(settings).
KeyDown ==
    /\ Idle /\ ~holding /\ ~settingsPending
    /\ press_seq < MaxPress
    /\ IF IsCounter
       THEN /\ cstore' = init_or_load_counter(cstore, cset.initial_value)
            /\ display' = render_number(read_counter(cstore, cset.initial_value))
            /\ has_active' = TRUE
            /\ Goto("kd_holding")
            /\ UNCHANGED holding
       ELSE /\ holding' = TRUE
            /\ GotoWith("kd_active", IF IsTimer /\ value = 0 THEN 1 ELSE 0)
            /\ UNCHANGED <<cstore, display, has_active>>
    /\ UNCHANGED <<cfgVars, tickVars, press_seq, active_press_id,
                   long_fired_press_id, duration_ms, storeVars, now, alerts,
                   workers, loops, boundVars, settingsPending, bus>>

KeyDownHolding ==
    /\ ctl.pc = "kd_holding"
    /\ holding' = TRUE
    /\ Goto("kd_active")
    /\ UNCHANGED <<cfgVars, tickVars, press_seq, active_press_id,
                   long_fired_press_id, duration_ms, storeVars, now, display,
                   alerts, workers, loops, boundVars, settingsPending,
                   counterVars>>

\* press_seq += 1; active_press_id.store(pid); long_fired_press_id.store(0);
\* thread::spawn of the long-press worker, which captures pid and
\* duration_ms and sleeps.
KeyDownActive ==
    /\ ctl.pc = "kd_active"
    /\ press_seq' = press_seq + 1
    /\ active_press_id' = press_seq + 1
    /\ long_fired_press_id' = 0
    /\ workers' = [workers EXCEPT ![press_seq + 1] =
                      [pc |-> "sleep", dur |-> duration_ms, woke |-> FALSE,
                       fired |-> FALSE, up |-> "none",
                       expired |-> (ctl.tmp = 1)]]
    /\ Goto("idle")
    /\ UNCHANGED <<cfgVars, tickVars, holding, duration_ms, storeVars, now, display,
                   alerts, loops, boundVars, settingsPending, counterVars>>

\* ------------------------------------------------------ long-press worker
\* Wakes from thread::sleep(long_press_ms); returns unless holding is set
\* and active_press_id is its pid.
WorkerWake(p) ==
    /\ workers[p].pc = "sleep"
    /\ workers' = [workers EXCEPT
                      ![p].pc = IF holding /\ active_press_id = p
                                THEN "w_fired" ELSE "done",
                      ![p].woke = (Held /\ CurPress = p)]
    /\ UNCHANGED <<cfgVars, tickVars, pressVars, duration_ms, storeVars, now,
                   display, alerts, ctl, loops, boundVars, settingsPending,
                   counterVars>>

\* fired_id.store(pid)
WorkerFired(p) ==
    /\ workers[p].pc = "w_fired"
    /\ long_fired_press_id' = p
    /\ workers' = [workers EXCEPT
                      ![p].pc = IF IsCounter THEN "w_read" ELSE "w_cancel",
                      ![p].fired = TRUE]
    /\ UNCHANGED <<cfgVars, tickVars, holding, press_seq, active_press_id,
                   duration_ms, storeVars, now, display, alerts, ctl, loops,
                   boundVars, settingsPending, counterVars>>

\* cancel.store(true); epoch.fetch_add(1)
WorkerCancel(p) ==
    /\ workers[p].pc = "w_cancel"
    /\ cancel' = TRUE
    /\ epoch' = (epoch + 1) % (WordMax + 1)
    /\ Churn
    /\ workers' = [workers EXCEPT ![p].pc = "w_value"]
    /\ UNCHANGED <<cfgVars, value, epoch_seq, running, pressVars, duration_ms,
                   storeVars, now, display, alerts, ctl, loops, events,
                   settingsPending, counterVars>>

\* remaining_ms.store(duration_ms) / elapsed_ms.store(0); clear_state; render
WorkerValue(p) ==
    /\ workers[p].pc = "w_value"
    /\ value' = IF IsTimer THEN workers[p].dur ELSE 0
    /\ alerts' = 0
    /\ Stored(map_remove(timers, Self))
    /\ display' = IF IsTimer THEN render_time_mmss(workers[p].dur \div 1000)
                  ELSE render_time_hhmmss(0)
    /\ Churn
    /\ workers' = [workers EXCEPT ![p].pc = "done"]
    /\ UNCHANGED <<cfgVars, cancel, epoch, epoch_seq, running, pressVars,
                   duration_ms, now, ctl, loops, events, settingsPending,
                   counterVars>>

\* Counter: base = read_counter(key, initial)
WorkerRead(p) ==
    /\ workers[p].pc = "w_read"
    /\ workers' = [workers EXCEPT
                      ![p].pc = "w_write",
                      ![p].dur = read_counter(cstore, cset.initial_value)]
    /\ UNCHANGED <<cfgVars, tickVars, pressVars, duration_ms, storeVars, now,
                   display, alerts, ctl, loops, boundVars, settingsPending,
                   counterVars>>

\* Counter: next = apply(long_action, ..); write, publish and render when
\* next != base or the action is reset.
WorkerWrite(p) ==
    /\ workers[p].pc = "w_write"
    /\ LET base == workers[p].dur
           next == apply(cset.long_action, base, cset.long_value,
                         cset.initial_value)
       IN IF DivideOverflows(cset.long_action, base, cset.long_value)
          THEN /\ workers' = [workers EXCEPT ![p].pc = "panicked",
                                             ![p].dur = 0]
               /\ UNCHANGED <<cstore, bus, display>>
          ELSE /\ workers' = [workers EXCEPT ![p].pc = "done", ![p].dur = 0]
               /\ IF next # base \/ cset.long_action = "reset"
                  THEN /\ cstore' = write_counter(next)
                       /\ bus' = Append(bus, next)
                       /\ display' = render_number(next)
                  ELSE UNCHANGED <<cstore, bus, display>>
    /\ UNCHANGED <<cfgVars, tickVars, pressVars, duration_ms, storeVars, now,
                   alerts, ctl, loops, boundVars, settingsPending, has_active>>

\* ----------------------------------------------------------------- key_up
\* The outcome key_up records for press pid (pid = 0: no press yet).
NoteUp(pid, outcome) ==
    IF pid \in DOMAIN workers
    THEN [workers EXCEPT ![pid].up = outcome] ELSE workers

\* holding.store(false); pid = active_press_id.load(); if
\* long_fired_press_id.load() == pid the long press handled it
\* (Timer/Stopwatch: running = false); otherwise the short-press policy
\* starts.
KeyUpEntry ==
    /\ Idle
    /\ holding' = FALSE
    /\ IF long_fired_press_id = active_press_id
       THEN /\ running' = IF IsCounter THEN running ELSE FALSE
            /\ workers' = NoteUp(active_press_id, "long")
            /\ Goto("idle")
       ELSE /\ workers' = NoteUp(active_press_id, "short")
            /\ UNCHANGED running
            /\ IF IsCounter
               THEN IF has_active THEN Goto("ku_cread") ELSE Goto("idle")
               ELSE IF running THEN Goto("ku_stop")
               ELSE Goto("ku_start_load")
    /\ UNCHANGED <<cfgVars, value, cancel, epoch, epoch_seq, press_seq,
                   active_press_id, long_fired_press_id, duration_ms, storeVars,
                   now, display, alerts, loops, boundVars, settingsPending,
                   counterVars>>

\* key_up of a press: key_down has set holding.
KeyUp == holding /\ KeyUpEntry

\* key_up with no key_down before it on this instance: the press counters
\* are as Default::default() left them.
KeyUpOrphan == press_seq = 0 /\ KeyUpEntry

\* Short press while running: stop_tick
KeyUpStop ==
    /\ ctl.pc = "ku_stop"
    /\ stop_tick
    /\ Churn
    /\ Goto("ku_stop_load")
    /\ UNCHANGED <<cfgVars, value, running, pressVars, duration_ms, storeVars, now,
                   display, alerts, workers, loops, events, settingsPending,
                   counterVars>>

\* running = false; the value is loaded
KeyUpStopLoad ==
    /\ ctl.pc = "ku_stop_load"
    /\ running' = FALSE
    /\ GotoWith("ku_stop_save", value)
    /\ UNCHANGED <<cfgVars, value, cancel, epoch, epoch_seq, pressVars,
                   duration_ms, storeVars, now, display, alerts, workers, loops,
                   boundVars, settingsPending, counterVars>>

\* save_paused; render
KeyUpStopSave ==
    /\ ctl.pc = "ku_stop_save"
    /\ Stored(map_insert(timers, Self, save_paused(ctl.tmp)))
    /\ display' = render_time(ctl.tmp \div 1000)
    /\ Goto("idle")
    /\ UNCHANGED <<cfgVars, tickVars, pressVars, duration_ms, now, alerts,
                   workers, loops, boundVars, settingsPending, counterVars>>

\* Short press while stopped, starting the count-down even from 0.
KeyUpStartLoad_NoZeroCheck ==
    /\ ctl.pc = "ku_start_load"
    /\ GotoWith("ku_start_save", value)
    /\ UNCHANGED <<cfgVars, tickVars, pressVars, duration_ms, storeVars, now,
                   display, alerts, workers, loops, boundVars,
                   settingsPending, counterVars>>

\* Short press while stopped.  Timer: if remaining_ms.load() == 0 { return };
\* then the value is loaded.
KeyUpStartLoad ==
    /\ ctl.pc = "ku_start_load"
    /\ IF IsTimer /\ value = 0 THEN Goto("idle")
       ELSE GotoWith("ku_start_save", value)
    /\ UNCHANGED <<cfgVars, tickVars, pressVars, duration_ms, storeVars, now,
                   display, alerts, workers, loops, boundVars,
                   settingsPending, counterVars>>

\* save_running(value): the anchor is the wall clock now
KeyUpStartSave ==
    /\ ctl.pc = "ku_start_save"
    /\ Stored(map_insert(timers, Self, save_running(ctl.tmp, now)))
    /\ Goto("ku_start")
    /\ UNCHANGED <<cfgVars, tickVars, pressVars, duration_ms, now, display,
                   alerts, workers, loops, boundVars, settingsPending,
                   counterVars>>

\* start_tick; running = true
KeyUpStart ==
    /\ ctl.pc = "ku_start"
    /\ start_tick(loops)
    /\ Churn
    /\ running' = TRUE
    /\ Goto("idle")
    /\ UNCHANGED <<cfgVars, value, pressVars, duration_ms, storeVars, now, display,
                   alerts, workers, events, settingsPending, counterVars>>

\* Counter: base = read_counter(key, initial)
KeyUpCounterRead ==
    /\ ctl.pc = "ku_cread"
    /\ GotoWith("ku_cwrite", read_counter(cstore, cset.initial_value))
    /\ UNCHANGED <<cfgVars, tickVars, pressVars, duration_ms, storeVars, now,
                   display, alerts, workers, loops, boundVars,
                   settingsPending, counterVars>>

\* key_up with Reset treated like every other operation: nothing happens
\* when next == base.
KeyUpCounterWrite_SuppressEqual ==
    /\ ctl.pc = "ku_cwrite"
    /\ LET base == ctl.tmp
           next == apply(cset.short_action, base, cset.short_value,
                         cset.initial_value)
       IN IF DivideOverflows(cset.short_action, base, cset.short_value)
          THEN Goto("panicked") /\ UNCHANGED cstore
          ELSE IF next = base
          THEN Goto("idle") /\ UNCHANGED cstore
          ELSE /\ cstore' = write_counter(next)
               /\ GotoWith("ku_cpublish", next)
    /\ UNCHANGED <<cfgVars, tickVars, pressVars, duration_ms, storeVars, now,
                   display, alerts, workers, loops, boundVars,
                   settingsPending, has_active, bus>>

\* key_up that publishes and renders although next == base.
KeyUpCounterWrite_NeverSuppress ==
    /\ ctl.pc = "ku_cwrite"
    /\ LET base == ctl.tmp
           next == apply(cset.short_action, base, cset.short_value,
                         cset.initial_value)
       IN IF DivideOverflows(cset.short_action, base, cset.short_value)
          THEN Goto("panicked") /\ UNCHANGED cstore
          ELSE /\ cstore' = write_counter(next)
               /\ GotoWith("ku_cpublish", next)
    /\ UNCHANGED <<cfgVars, tickVars, pressVars, duration_ms, storeVars, now,
                   display, alerts, workers, loops, boundVars,
                   settingsPending, has_active, bus>>

\* Counter: next = apply(short_action, ..); key_up returns when next == base
\* and the action is not reset; otherwise write_counter(key, next).
KeyUpCounterWrite ==
    /\ ctl.pc = "ku_cwrite"
    /\ LET base == ctl.tmp
           next == apply(cset.short_action, base, cset.short_value,
                         cset.initial_value)
       IN IF DivideOverflows(cset.short_action, base, cset.short_value)
          THEN Goto("panicked") /\ UNCHANGED cstore
          ELSE IF next = base /\ cset.short_action # "reset"
          THEN Goto("idle") /\ UNCHANGED cstore
          ELSE /\ cstore' = write_counter(next)
               /\ GotoWith("ku_cpublish", next)
    /\ UNCHANGED <<cfgVars, tickVars, pressVars, duration_ms, storeVars, now,
                   display, alerts, workers, loops, boundVars,
                   settingsPending, has_active, bus>>

\* Counter: publish_t(COUNTER_CHANGED, CounterChanged { key, value: next })
KeyUpCounterPublish ==
    /\ ctl.pc = "ku_cpublish"
    /\ bus' = Append(bus, ctl.tmp)
    /\ GotoWith("ku_crender", ctl.tmp)
    /\ UNCHANGED <<cfgVars, tickVars, pressVars, duration_ms, storeVars, now,
                   display, alerts, workers, loops, boundVars,
                   settingsPending, cstore, has_active>>

\* Counter: render_number(cx, ev.context, next)
KeyUpCounterRender ==
    /\ ctl.pc = "ku_crender"
    /\ display' = render_number(ctl.tmp)
    /\ Goto("idle")
    /\ UNCHANGED <<cfgVars, tickVars, pressVars, duration_ms, storeVars, now,
                   alerts, workers, loops, boundVars, settingsPending,
                   counterVars>>

\* Counter: on_notify of a COUNTER_CHANGED event for this button's key
OnNotify ==
    /\ Idle /\ bus # <<>>
    /\ display' = render_number(Head(bus))
    /\ bus' = Tail(bus)
    /\ UNCHANGED <<cfgVars, tickVars, pressVars, duration_ms, storeVars, now,
                   alerts, ctl, workers, loops, boundVars, settingsPending,
                   cstore, has_active>>

\* -------------------------------------------------------------- tick loop
\* The loops whose captured epoch is the shared epoch, cancel being clear.
Live == {i \in DOMAIN loops : loops[i].my = epoch /\ ~cancel}

\* Wakes from thread::sleep(TICK_MS); breaks when cancel is set or the
\* epoch is not my_epoch; loads the value.  Timer: at 0 the loop alerts,
\* renders 0 and breaks.
Superseded_CancelOnly(i) == cancel

\* if cancel.load() { break }  if epoch.load() != my_epoch { break }
Superseded(i) == cancel \/ epoch # loops[i].my

TickWake(i) ==
    /\ loops[i].pc = "sleep"
    /\ events < MaxEvents
    /\ events' = events + 1
    /\ IF Superseded(i)
       THEN /\ loops' = RemoveAt(loops, i)
            /\ UNCHANGED <<alerts, display>>
       ELSE IF IsTimer /\ value = 0
       THEN /\ alerts' = Min(alerts + 1, 2)
            /\ display' = render_time_mmss(0)
            /\ loops' = RemoveAt(loops, i)
       ELSE /\ loops' = [loops EXCEPT ![i].pc = "t_store", ![i].cur = value]
            /\ UNCHANGED <<alerts, display>>
    /\ UNCHANGED <<cfgVars, tickVars, pressVars, duration_ms, storeVars, now, ctl,
                   workers, overlap, settingsPending, counterVars>>

\* One tick in wrapping arithmetic: below 0 and past the top of the word.
TickNext_Wrapping(current) ==
    IF IsTimer THEN (current - TICK_MS) % (WordMax + 1)
    ELSE (current + TICK_MS) % (WordMax + 1)

\* What one tick makes of the value it loaded.
TickNext(current) ==
    IF IsTimer THEN saturating_sub(current, TICK_MS)
    ELSE saturating_add(current, TICK_MS)

\* The tick iteration rendering on every tick, boundary or not.
TickStore_RenderEveryTick(i) ==
    /\ loops[i].pc = "t_store"
    /\ LET current == loops[i].cur
           next == TickNext(current)
       IN /\ value' = next
          /\ IF IsTimer /\ next = 0
             THEN /\ alerts' = Min(alerts + 1, 2)
                  /\ display' = render_time_mmss(0)
                  /\ loops' = RemoveAt(loops, i)
             ELSE /\ display' = render_time(next \div 1000)
                  /\ loops' = [loops EXCEPT ![i].pc = "sleep", ![i].cur = 0]
                  /\ UNCHANGED alerts
    /\ UNCHANGED <<cfgVars, cancel, epoch, epoch_seq, running, pressVars,
                   duration_ms, storeVars, now, ctl, workers, boundVars,
                   settingsPending, counterVars>>

\* value.store(next); Timer: at 0 alert, render 0, break; otherwise render
\* when the whole second changed, and sleep again.
TickStore(i) ==
    /\ loops[i].pc = "t_store"
    /\ LET current == loops[i].cur
           next == TickNext(current)
       IN /\ value' = next
          /\ IF IsTimer /\ next = 0
             THEN /\ alerts' = Min(alerts + 1, 2)
                  /\ display' = render_time_mmss(0)
                  /\ loops' = RemoveAt(loops, i)
             ELSE /\ display' = IF next \div 1000 # current \div 1000
                                THEN render_time(next \div 1000) ELSE display
                  /\ loops' = [loops EXCEPT ![i].pc = "sleep", ![i].cur = 0]
                  /\ UNCHANGED alerts
    /\ UNCHANGED <<cfgVars, cancel, epoch, epoch_seq, running, pressVars,
                   duration_ms, storeVars, now, ctl, workers, boundVars,
                   settingsPending, counterVars>>

\* ------------------------------------------------------------------ Next
Next ==
    \/ InitHandler
    \/ DidReceiveSettings
    \/ SettingsStoreValue
    \/ SettingsClear
    \/ SettingsFirstInit
    \/ Teardown
    \/ TeardownLoad
    \/ TeardownSave
    \/ KeyDown
    \/ KeyDownHolding
    \/ KeyDownActive
    \/ KeyUp
    \/ KeyUpStop
    \/ KeyUpStopLoad
    \/ KeyUpStopSave
    \/ KeyUpStartLoad
    \/ KeyUpStartSave
    \/ KeyUpStart
    \/ KeyUpCounterRead
    \/ KeyUpCounterWrite
    \/ KeyUpCounterPublish
    \/ KeyUpCounterRender
    \/ OnNotify
    \/ \E p \in 1..MaxPress :
          \/ WorkerWake(p)
          \/ WorkerFired(p)
          \/ WorkerCancel(p)
          \/ WorkerValue(p)
          \/ WorkerRead(p)
          \/ WorkerWrite(p)
    \/ \E i \in DOMAIN loops :
          \/ TickWake(i)
          \/ TickStore(i)

Spec == Init /\ [][Next]_vars

\* ------------------------------------------------- the time anchor alone
\* save_paused / save_running and load_state on their own: a value is
\* saved as running or paused, the wall clock moves on, the snapshot is
\* loaded, and the loaded value may be saved again.
AnchorInit ==
    /\ kind \in {"timer", "stopwatch"}
    /\ value \in {k * TICK_MS : k \in 0..MaxSaved}
    /\ running \in BOOLEAN
    /\ now \in {0, TICK_MS}
    /\ snap = NoSnap
    /\ peer = PeerStopped
    /\ ctl = [pc |-> "a_save", tmp |-> 0]
    /\ cfgSecs = DEFAULT_DURATION_SECS
    /\ cset = DefaultCounterCfg
    /\ cancel = FALSE /\ epoch = 0 /\ epoch_seq = 0
    /\ holding = FALSE /\ press_seq = 0
    /\ active_press_id = 0 /\ long_fired_press_id = 0
    /\ duration_ms = DefaultDuration(kind)
    /\ display = Blank
    /\ alerts = 0
    /\ workers = [p \in 1..MaxPress |-> NoWorker]
    /\ loops = <<>>
    /\ events = 0
    /\ overlap = FALSE
    /\ settingsPending = FALSE
    /\ cstore = NoVal
    /\ has_active = FALSE
    /\ bus = <<>>

\* if self.running { save_running(..) } else { save_paused(..) }
AnchorSave ==
    /\ ctl.pc = "a_save"
    /\ Stored(map_insert(timers, Self,
                         IF running THEN save_running(value, now)
                         ELSE save_paused(value)))
    /\ Goto("a_load")
    /\ UNCHANGED <<cfgVars, tickVars, pressVars, duration_ms, now, display,
                   alerts, workers, loops, boundVars, settingsPending,
                   counterVars>>

\* The wall clock (unix_now_ms) moves on while the snapshot is stored.
AnchorAdvance ==
    /\ ctl.pc = "a_load"
    /\ now < (MaxDown + 1) * TICK_MS
    /\ now' = now + TICK_MS
    /\ UNCHANGED <<cfgVars, tickVars, pressVars, duration_ms, storeVars, display,
                   alerts, ctl, workers, loops, boundVars, settingsPending,
                   counterVars>>

\* let (value, was_running) = load_state(cx, ctx_id)
AnchorLoad ==
    /\ ctl.pc = "a_load"
    /\ value' = load_state(snap, now)[1]
    /\ running' = load_state(snap, now)[2]
    /\ Goto("a_save")
    /\ UNCHANGED <<cfgVars, cancel, epoch, epoch_seq, pressVars, duration_ms,
                   storeVars, now, display, alerts, workers, loops, boundVars,
                   settingsPending, counterVars>>

AnchorNext == AnchorSave \/ AnchorAdvance \/ AnchorLoad

AnchorSpec == AnchorInit /\ [][AnchorNext]_vars

\* The wall clock is SystemTime::now(): it can be set back while the
\* snapshot is stored, to before the anchor.
AnchorRewind ==
    /\ ctl.pc = "a_load"
    /\ now >= TICK_MS
    /\ now' = now - TICK_MS
    /\ UNCHANGED <<cfgVars, tickVars, pressVars, duration_ms, storeVars, display,
                   alerts, ctl, workers, loops, boundVars, settingsPending,
                   counterVars>>

ClockNext == AnchorSave \/ AnchorAdvance \/ AnchorRewind \/ AnchorLoad

ClockSpec == AnchorInit /\ [][ClockNext]_vars

\* ------------------------------------------------------------ apply alone
\* key_up's read_counter / apply / write_counter on a stored base, an
\* operation and an operand drawn from the ends and the middle of i64.
ApplyInts == {IntMin, -1, 0, 1, 2, IntMax}

ApplyInit ==
    /\ kind = "counter"
    /\ cset \in { [initial_value |-> i, short_action |-> op,
                   short_value |-> n, long_action |-> "none",
                   long_value |-> 0] :
                  i \in {0, 7}, op \in Ops, n \in ApplyInts }
    /\ cstore \in {write_counter(b) : b \in ApplyInts}
    /\ has_active = TRUE
    /\ ctl = [pc |-> "ku_cread", tmp |-> 0]
    /\ value = DefaultValue(kind)
    /\ running = FALSE
    /\ now = 0
    /\ snap = NoSnap
    /\ peer = PeerStopped
    /\ cfgSecs = DEFAULT_DURATION_SECS
    /\ cancel = FALSE /\ epoch = 0 /\ epoch_seq = 0
    /\ holding = FALSE /\ press_seq = 0
    /\ active_press_id = 0 /\ long_fired_press_id = 0
    /\ duration_ms = DefaultDuration(kind)
    /\ display = Blank
    /\ alerts = 0
    /\ workers = [p \in 1..MaxPress |-> NoWorker]
    /\ loops = <<>>
    /\ events = 0
    /\ overlap = FALSE
    /\ settingsPending = FALSE
    /\ bus = <<>>

ApplyNext ==
    \/ KeyUpCounterRead
    \/ KeyUpCounterWrite
    \/ KeyUpCounterPublish
    \/ KeyUpCounterRender
    \/ OnNotify

ApplySpec == ApplyInit /\ [][ApplyNext]_vars

\* ------------------------------------------------------ the Computed action
\* A Computed button shows the value of an expression over counters.  Its
\* settings are the expression, here already in reverse Polish order as
\* to_rpn leaves it, and missing_as_zero.  Tokens: a number, an identifier
\* (bare or quoted), unary minus, a binary operator; a parenthesis left in
\* the sequence is skipped by eval_rpn.
CounterKey == "c"

Names == {CounterKey, "x"}

Num(n) == [tok |-> "num", n |-> n, name |-> ""]
Id(name) == [tok |-> "id", n |-> 0, name |-> name]
UMinus == [tok |-> "uminus", n |-> 0, name |-> ""]
Op(op) == [tok |-> op, n |-> 0, name |-> ""]
LParen == [tok |-> "lparen", n |-> 0, name |-> ""]

Toks ==
    {Num(n) : n \in {0, 1, 2, IntMax}} \cup {Id(x) : x \in Names}
        \cup {UMinus, LParen}
        \cup {Op(op) : op \in {"add", "sub", "mul", "div"}}

\* var(id) of compute: globals["counters"][id] as (value, present).
var(name) ==
    IF name = CounterKey /\ cstore.has THEN <<cstore.v, TRUE>>
    ELSE <<0, FALSE>>

\* st.pop().unwrap_or(0) and what it leaves
Top(st) == IF st = <<>> THEN 0 ELSE st[Len(st)]

Pop(st) == IF st = <<>> THEN st ELSE SubSeq(st, 1, Len(st) - 1)

saturating_neg(x) == IF x = IntMin THEN IntMax ELSE -x

\* eval_rpn from token i on with stack st: the value returned, or fault
\* when `a / b` panics (i64::MIN / -1).
RECURSIVE eval_from(_, _, _, _)
eval_from(rpn, i, st, missing_as_zero) ==
    IF i > Len(rpn) THEN [fault |-> FALSE, v |-> Top(st)]
    ELSE LET t == rpn[i]
         IN CASE t.tok = "num" ->
                   eval_from(rpn, i + 1, Append(st, t.n), missing_as_zero)
              [] t.tok = "id" ->
                   LET v == IF var(t.name)[2] THEN var(t.name)[1]
                            ELSE IF missing_as_zero THEN 0 ELSE 1
                   IN eval_from(rpn, i + 1, Append(st, v), missing_as_zero)
              [] t.tok = "uminus" ->
                   eval_from(rpn, i + 1,
                             Append(Pop(st), saturating_neg(Top(st))),
                             missing_as_zero)
              [] t.tok \in {"add", "sub", "mul", "div"} ->
                   LET b == Top(st)
                       a == Top(Pop(st))
                       rest == Pop(Pop(st))
                   IN IF t.tok = "div" /\ a = IntMin /\ b = -1
                      THEN [fault |-> TRUE, v |-> 0]
                      ELSE eval_from(
                               rpn, i + 1,
                               Append(rest,
                                      CASE t.tok = "add" -> Clamp(a + b)
                                        [] t.tok = "sub" -> Clamp(a - b)
                                        [] t.tok = "mul" ->
                                              saturating_mul_i64(a, b)
                                        [] t.tok = "div" ->
                                              IF b = 0 THEN 0
                                              ELSE TruncDiv(a, b)),
                               missing_as_zero)
              [] OTHER -> eval_from(rpn, i + 1, st, missing_as_zero)

eval_rpn(rpn, missing_as_zero) == eval_from(rpn, 1, <<>>, missing_as_zero)

\* compute: 0 without an expression, eval_rpn of it otherwise.
compute ==
    IF cset.expression = <<>> THEN [fault |-> FALSE, v |-> 0]
    ELSE eval_rpn(cset.expression, cset.missing_as_zero)

\* collect_idents: the names the expression mentions
deps ==
    {cset.expression[i].name :
        i \in {j \in DOMAIN cset.expression : cset.expression[j].tok = "id"}}

IsComputed == kind = "computed"

RECURSIVE TokSeqs(_)
TokSeqs(n) ==
    IF n = 0 THEN {<<>>}
    ELSE TokSeqs(n - 1)
            \cup {Append(q, t) : q \in {r \in TokSeqs(n - 1) : Len(r) = n - 1},
                                 t \in Toks}

\* A Computed button before its init.  The counter it may mention is
\* absent, or holds a value a Counter button left.
EvalInit ==
    /\ kind = "computed"
    /\ cset \in [expression : TokSeqs(MaxTokens) \ {<<>>},
                  missing_as_zero : BOOLEAN]
    /\ cstore \in {NoVal, write_counter(IntMin), write_counter(3)}
    /\ bus = <<>>
    /\ ctl = [pc |-> "new", tmp |-> 0]
    /\ has_active = FALSE
    /\ value = 0
    /\ running = FALSE
    /\ now = 0
    /\ snap = NoSnap
    /\ peer = PeerStopped
    /\ cfgSecs = DEFAULT_DURATION_SECS
    /\ cancel = FALSE /\ epoch = 0 /\ epoch_seq = 0
    /\ holding = FALSE /\ press_seq = 0
    /\ active_press_id = 0 /\ long_fired_press_id = 0
    /\ duration_ms = 0
    /\ display = Blank
    /\ alerts = 0
    /\ workers = [p \in 1..MaxPress |-> NoWorker]
    /\ loops = <<>>
    /\ events = 0
    /\ overlap = FALSE
    /\ settingsPending = FALSE

\* ComputedAction::init: get_settings; render_number(0)
ComputedInit ==
    /\ IsComputed /\ ctl.pc = "new"
    /\ settingsPending' = TRUE
    /\ display' = render_number(0)
    /\ Goto("idle")
    /\ UNCHANGED <<cfgVars, tickVars, pressVars, duration_ms, storeVars, now,
                   alerts, workers, loops, boundVars, counterVars>>

\* ComputedAction::did_receive_settings: compute and render
ComputedSettings ==
    /\ IsComputed /\ Idle /\ settingsPending
    /\ settingsPending' = FALSE
    /\ IF compute.fault
       THEN Goto("panicked") /\ UNCHANGED display
       ELSE Goto("idle") /\ display' = render_number(compute.v)
    /\ UNCHANGED <<cfgVars, tickVars, pressVars, duration_ms, storeVars, now,
                   alerts, workers, loops, boundVars, counterVars>>

\* ComputedAction::on_notify: skipped when the expression names counters
\* and the changed one is not among them; otherwise compute and render.
ComputedNotify ==
    /\ IsComputed /\ Idle /\ ~settingsPending /\ bus # <<>>
    /\ bus' = Tail(bus)
    /\ IF deps # {} /\ CounterKey \notin deps
       THEN Goto("idle") /\ UNCHANGED display
       ELSE IF compute.fault
       THEN Goto("panicked") /\ UNCHANGED display
       ELSE Goto("idle") /\ display' = render_number(compute.v)
    /\ UNCHANGED <<cfgVars, tickVars, pressVars, duration_ms, storeVars, now,
                   alerts, workers, loops, boundVars, settingsPending,
                   cstore, has_active>>

\* A Counter button on the same counter writes a value and publishes
\* COUNTER_CHANGED (the tail of its key_up or of its long-press thread).
CounterChanges(v) ==
    /\ IsComputed /\ events < MaxChanges
    /\ events' = events + 1
    /\ cstore' = write_counter(v)
    /\ bus' = Append(bus, v)
    /\ UNCHANGED <<cfgVars, tickVars, pressVars, duration_ms, storeVars, now,
                   alerts, workers, loops, overlap, settingsPending, ctl,
                   display, has_active>>

EvalNext ==
    \/ ComputedInit
    \/ ComputedSettings
    \/ ComputedNotify
    \/ \E v \in {IntMin, 0} : CounterChanges(v)

EvalSpec == EvalInit /\ [][EvalNext]_vars

\* ------------------------------------------------------ a tick loop alone
\* One live loop of a running Timer or Stopwatch and nothing else: no
\* press, no settings change, no teardown.  The value it starts from lies
\* around the whole-second boundaries, for the Timer also within one tick
\* of 0 and for the Stopwatch within one tick of the top of the word.
TickSeeds(k) ==
    IF k = "timer"
    THEN {n * TICK_MS : n \in 1..MaxTickSeed} \cup {TICK_MS \div 2}
    ELSE {n * TICK_MS : n \in 0..MaxTickSeed}
            \cup {WordMax - (TICK_MS + TICK_MS \div 2),
                  WordMax - TICK_MS \div 2, WordMax}

TickInit ==
    /\ kind \in {"timer", "stopwatch"}
    /\ value \in TickSeeds(kind)
    /\ running = TRUE
    /\ cancel = FALSE /\ epoch = 1 /\ epoch_seq = 1
    /\ loops = <<[my |-> 1, pc |-> "sleep", cur |-> 0]>>
    /\ snap = save_running(value, 0)
    /\ peer = PeerStopped
    /\ now = 0
    /\ display = Blank
    /\ events = MaxEvents - MaxTicks
    /\ ctl = [pc |-> "idle", tmp |-> 0]
    /\ cfgSecs = DEFAULT_DURATION_SECS
    /\ cset = DefaultCounterCfg
    /\ holding = FALSE /\ press_seq = 0
    /\ active_press_id = 0 /\ long_fired_press_id = 0
    /\ duration_ms = DefaultDuration(kind)
    /\ alerts = 0
    /\ workers = [p \in 1..MaxPress |-> NoWorker]
    /\ overlap = FALSE
    /\ settingsPending = FALSE
    /\ cstore = NoVal
    /\ has_active = FALSE
    /\ bus = <<>>

TickOnlyNext == \E i \in DOMAIN loops : TickWake(i) \/ TickStore(i)

TickSpec == TickInit /\ [][TickOnlyNext]_vars

\* ------------------------------------------------- threads under fairness
\* A Timer or Stopwatch restored while running, or a Counter, the whole
\* plugin around it, and the scheduler's fairness: a thread that sleeps wakes up, a thread
\* that can run does run.  The tick budget MaxEvents bounds the wake-ups of
\* live loops only; a superseded loop's sleep still ends (TickExit).
MaxLoops == MaxPress + 1

LeakInit ==
    /\ Init
    /\ cfgSecs = DEFAULT_DURATION_SECS
    /\ ~IsCounter => (snap.anchored /\ now = TICK_MS)

\* The wake-up of a superseded loop once the tick budget is used up: the
\* loop breaks on cancel or on the epoch.
TickExit(i) ==
    /\ loops[i].pc = "sleep"
    /\ Superseded(i)
    /\ events >= MaxEvents
    /\ loops' = RemoveAt(loops, i)
    /\ UNCHANGED <<cfgVars, tickVars, pressVars, duration_ms, storeVars, now,
                   display, alerts, ctl, workers, boundVars,
                   settingsPending, counterVars>>

LeakNext == Next \/ \E i \in DOMAIN loops : TickExit(i)

\* One thread's steps: the tick loop at index i, the worker of press p.
LoopStep(i) ==
    /\ i \in DOMAIN loops
    /\ TickWake(i) \/ TickStore(i) \/ TickExit(i)

WorkerStep(p) ==
    \/ WorkerWake(p)
    \/ WorkerFired(p)
    \/ WorkerCancel(p)
    \/ WorkerValue(p)
    \/ WorkerRead(p)
    \/ WorkerWrite(p)

LeakSpec ==
    /\ LeakInit
    /\ [][LeakNext]_vars
    /\ \A i \in 1..MaxLoops : WF_vars(LoopStep(i))
    /\ \A p \in 1..MaxPress : WF_vars(WorkerStep(p))

\* ------------------------------------------------------------ two buttons
\* The button restored while running (or a Counter) next to a second button
\* of its kind that is stopped or running; every step is the first
\* button's.
PairInit ==
    /\ InitButton
    /\ cfgSecs = DEFAULT_DURATION_SECS
    /\ ~IsCounter => (snap.anchored /\ now = TICK_MS)
    /\ peer \in {PeerStopped, PeerRunning}

PairSpec == PairInit /\ [][Next]_vars

\* ------------------------------------------------- key_up without key_down
\* The plugin with a key_up that may arrive before any key_down (the key
\* was already down when the button appeared).
OrphanInit ==
    /\ Init
    /\ cfgSecs = DEFAULT_DURATION_SECS
    /\ ~IsCounter => (snap.anchored /\ now = TICK_MS)

OrphanNext == Next \/ KeyUpOrphan

OrphanSpec == OrphanInit /\ [][OrphanNext]_vars

\* -------------------------------------------------- two Counter buttons
\* Two Counter buttons configured with the same counterId, so that
\* counter_key gives both the same key.  The first was pressed and released
\* short and its key_up is about to read; the second is held and its
\* long-press thread has stored the fired marker and is about to read.
\* Both apply Add.  The counter holds the initial value key_down's
\* init_or_load_counter left.
ShareOperands == {-3, 1, 2, 5}

PeerCounter(initial, n) ==
    [pc |-> "w_read", dur |-> 0, initial_value |-> initial,
     long_action |-> "add", long_value |-> n, display |-> render_number(initial),
     holding |-> TRUE, press_seq |-> 1, active_press_id |-> 1,
     long_fired_press_id |-> 1]

ShareInit ==
    /\ kind = "counter"
    /\ \E initial \in {-5, 0, 7, 100}, a \in ShareOperands, b \in ShareOperands :
          /\ cset = [initial_value |-> initial, short_action |-> "add",
                     short_value |-> a, long_action |-> "none",
                     long_value |-> 0]
          /\ cstore = write_counter(initial)
          /\ peer = PeerCounter(initial, b)
          /\ display = render_number(initial)
    /\ bus = <<>>
    /\ ctl = [pc |-> "ku_cread", tmp |-> 0]
    /\ has_active = TRUE
    /\ value = 0
    /\ running = FALSE
    /\ now = 0
    /\ snap = NoSnap
    /\ cfgSecs = DEFAULT_DURATION_SECS
    /\ cancel = FALSE /\ epoch = 0 /\ epoch_seq = 0
    /\ holding = FALSE /\ press_seq = 1
    /\ active_press_id = 1 /\ long_fired_press_id = 0
    /\ duration_ms = 0
    /\ alerts = 0
    /\ workers = [p \in 1..MaxPress |->
                    IF p = 1 THEN [NoWorker EXCEPT !.pc = "done", !.up = "short"]
                    ELSE NoWorker]
    /\ loops = <<>>
    /\ events = 0
    /\ overlap = FALSE
    /\ settingsPending = FALSE

\* The second button's thread: base = read_counter(key, initial)
PeerWorkerRead ==
    /\ peer.pc = "w_read"
    /\ peer' = [peer EXCEPT
                    !.pc = "w_write",
                    !.dur = read_counter(cstore, peer.initial_value)]
    /\ UNCHANGED <<cfgVars, tickVars, pressVars, duration_ms, snap, now,
                   display, alerts, ctl, workers, loops, boundVars,
                   settingsPending, counterVars>>

\* The second button's thread: next = apply(long_action, ..); write,
\* publish and render on its own key when next != base or the action is
\* reset.
PeerWorkerWrite ==
    /\ peer.pc = "w_write"
    /\ LET base == peer.dur
           next == apply(peer.long_action, base, peer.long_value,
                         peer.initial_value)
       IN IF DivideOverflows(peer.long_action, base, peer.long_value)
          THEN /\ peer' = [peer EXCEPT !.pc = "panicked", !.dur = 0]
               /\ UNCHANGED <<cstore, bus>>
          ELSE IF next # base \/ peer.long_action = "reset"
          THEN /\ cstore' = write_counter(next)
               /\ bus' = Append(bus, next)
               /\ peer' = [peer EXCEPT !.pc = "done", !.dur = 0,
                                       !.display = render_number(next)]
          ELSE /\ peer' = [peer EXCEPT !.pc = "done", !.dur = 0]
               /\ UNCHANGED <<cstore, bus>>
    /\ UNCHANGED <<cfgVars, tickVars, pressVars, duration_ms, snap, now,
                   display, alerts, ctl, workers, loops, boundVars,
                   settingsPending, has_active>>

\* The event path hands the oldest COUNTER_CHANGED to on_notify of both
\* buttons; the key is theirs, so each renders n.value.
ShareNotify ==
    /\ Idle /\ bus # <<>>
    /\ display' = render_number(Head(bus))
    /\ peer' = [peer EXCEPT !.display = render_number(Head(bus))]
    /\ bus' = Tail(bus)
    /\ UNCHANGED <<cfgVars, tickVars, pressVars, duration_ms, snap, now,
                   alerts, ctl, workers, loops, boundVars, settingsPending,
                   cstore, has_active>>

ShareNext ==
    \/ KeyUpCounterRead
    \/ KeyUpCounterWrite
    \/ KeyUpCounterPublish
    \/ KeyUpCounterRender
    \/ PeerWorkerRead
    \/ PeerWorkerWrite
    \/ ShareNotify

ShareSpec == ShareInit /\ [][ShareNext]_vars

\* ================================================================ claims
\* ----------------------------------------------------- press arbitration
Presses == 1..MaxPress

\* The worker of press p has passed its two checks: what follows is its
\* action (the fired marker, then the reset or the counter's long op).
Acting(p) == workers[p].pc \in {"w_fired", "w_cancel", "w_value", "w_read",
                                "w_write"}

\* C1: in a sequence of presses each released before its worker wakes, no
\* worker reaches its action: a worker acts only for a press that was still
\* down when the worker woke.
C1_ShortPressNeverFires ==
    \A p \in Presses : (Acting(p) \/ workers[p].fired) => workers[p].woke

\* C2: a press still down when its worker wakes has its long-press action
\* fired, and the key_up that follows takes the LongAlreadyFired branch.
C2_HeldPressFiresThenLong ==
    \A p \in Presses :
        (workers[p].woke /\ workers[p].up # "none")
            => (workers[p].up = "long" /\ workers[p].fired)

\* C3: for one press at most one of the two takes effect: key_up applies the
\* short-press policy if and only if the long-press action of that press
\* does not fire.
C3_ShortXorLong ==
    \A p \in Presses :
        /\ workers[p].up = "short" => ~(Acting(p) \/ workers[p].fired)
        /\ workers[p].up = "long" => workers[p].fired

\* C4: a worker produces an effect for press p only while press p is the
\* press the key is in (not released, not superseded by a later key_down).
C4_StaleWorkerNoEffect ==
    [][\A p \in Presses :
          (WorkerFired(p) \/ WorkerCancel(p) \/ WorkerValue(p) \/ WorkerWrite(p))
              => (Held /\ CurPress = p)]_vars


\* ---------------------------------------------------------- tick loops
\* C5: when every stop, start and reset so far happened between tick
\* iterations, at most one loop is live, start_tick leaves exactly one, and
\* a store is made by the live loop and moves the value by exactly one
\* period (TICK_MS): no two loops advance the same counter.
C5_OneLiveLoopExactPeriods ==
    [][~overlap =>
          /\ Cardinality(Live') <= 1
          /\ KeyUpStart => Cardinality(Live') = 1
          /\ \A i \in DOMAIN loops :
                TickStore(i) => (i \in Live /\ value' = TickNext(value))]_vars

\* Stopped and started again with the older loop still asleep; the newer loop
\* is in a later period of its own.
C5_Witness ==
    /\ IsStopwatch /\ ~overlap
    /\ epoch_seq >= 3 /\ Len(loops) >= 2 /\ events >= 2
    /\ \E i \in DOMAIN loops :
          /\ loops[i].pc = "t_store" /\ i \in Live
          /\ loops[i].cur = value /\ value > 10 * TICK_MS

\* C6: a loop whose captured epoch is no longer the shared epoch never
\* stores to the value (nor renders, nor alerts).
C6_SupersededLoopSilent ==
    [][\A i \in DOMAIN loops : TickStore(i) => loops[i].my = epoch]_vars

\* C7: after the long-press reset of the latest press, with the event
\* thread idle, the worker finished and no tick iteration in flight, and
\* before any start or duration change, the value is duration_ms (Timer)
\* or 0 (Stopwatch) and no loop is live.
C7_ResetSticks ==
    \A p \in Presses :
        (/\ ~IsCounter /\ Idle /\ ~Busy
         /\ p = press_seq /\ workers[p].fired /\ workers[p].pc = "done"
         /\ workers[p].up # "short"
         /\ \A q \in Presses : ~Acting(q)
         /\ duration_ms = workers[p].dur)
        => (value = (IF IsTimer THEN duration_ms ELSE 0) /\ Live = {})

\* C8: the expiry alert is raised exactly once for each time remaining_ms
\* reaches 0, and remaining_ms stays 0 until a reset or duration change.
C8_ExpiryAlertOnce ==
    IsTimer => (alerts <= 1 /\ (alerts = 1 <=> value = 0))

\* The steps of key_up's short-press policy.
ShortPolicyStep ==
    \/ KeyUpStop \/ KeyUpStopLoad \/ KeyUpStopSave
    \/ KeyUpStartLoad \/ KeyUpStartSave \/ KeyUpStart

\* C9: after the count-down expired, a short press is a no-op: it starts no
\* loop and leaves remaining_ms, running and the snapshot unchanged.
C9_ShortPressAfterExpiryNoOp ==
    [][(/\ IsTimer /\ value = 0 /\ alerts = 1
        /\ press_seq \in Presses /\ workers[press_seq].expired
        /\ ShortPolicyStep)
          => UNCHANGED <<value, running, snap, loops>>]_vars

\* ------------------------------------------------------------ persistence
\* C10: restarted D ms after a teardown while running, with D < R, init
\* restores R - D (Stopwatch: elapsed + D) with a live loop and a running
\* snapshot, and the did_receive_settings that follows, carrying the
\* configured duration, keeps all of it.
C10_RestartKeepsProgress ==
    [][/\ (InitHandler /\ snap.anchored
             /\ (IsStopwatch \/ now - snap.anchor < snap.v))
          => /\ value' = (IF IsTimer THEN snap.v - (now - snap.anchor)
                          ELSE snap.v + (now - snap.anchor))
             /\ running' /\ snap'.anchored /\ Live' # {}
       /\ (DidReceiveSettings /\ settingsPending /\ running /\ snap.anchored)
          => /\ ctl'.pc = "idle"
             /\ UNCHANGED <<value, running, snap, cancel, epoch, loops>>]_vars

\* C11: a Timer initialised from a running snapshot whose time ran out while
\* the instance was gone (now - anchor >= remaining_ms) is at 0, not running
\* and without a tick loop, and stays so while that snapshot is the
\* persisted one (in particular after did_receive_settings with the same
\* duration).
C11_ExpiredWhileGone ==
    (/\ IsTimer /\ ctl.pc # "new"
     /\ snap.anchored /\ now - snap.anchor >= snap.v)
        => (value = 0 /\ ~running /\ loops = <<>>)

\* C12: round trip of the time anchor.  A value saved as running at t0 and
\* loaded at t1 >= t0 comes back as v + (t1 - t0) (Stopwatch) or
\* max(0, v - (t1 - t0)) (Timer) with was_running = true; a value saved as
\* paused comes back verbatim with was_running = false.
C12_AnchorRoundTrip ==
    [][/\ AnchorSave =>
             /\ snap'.has /\ snap'.v = value /\ snap'.anchored = running
             /\ running => snap'.anchor = now
       /\ AnchorLoad =>
             LET d == now - snap.anchor
             IN IF running
                THEN /\ running'
                     /\ value' = IF IsStopwatch THEN value + d
                                 ELSE IF value - d > 0 THEN value - d ELSE 0
                ELSE ~running' /\ value' = value]_vars

\* A running count-down loaded after more time than it had left, and a
\* running value loaded later than it was saved.
C12_Witness ==
    /\ ctl.pc = "a_save" /\ snap.anchored /\ running
    /\ now > snap.anchor
    /\ \/ IsTimer /\ now - snap.anchor > snap.v /\ snap.v > 0 /\ value = 0
       \/ IsStopwatch /\ value = snap.v + (now - snap.anchor)

\* ---------------------------------------------------------------- settings
\* C13: a did_receive_settings that changes the configured duration while
\* the Timer is running leaves the active tick loop untouched: cancel, epoch,
\* the running flag and remaining_ms are as before, and the loop stays live.
C13_ChangeWhileRunningKeepsLoop ==
    [][(/\ DidReceiveSettings /\ IsTimer /\ ~settingsPending
        /\ running /\ Live # {}
        /\ duration_ms = new_duration_ms(cfgSecs)
        /\ new_duration_ms(cfgSecs') # duration_ms)
          => (UNCHANGED <<cancel, epoch, value, running, loops>>
              /\ ctl'.pc = "idle")]_vars

\* C14: a did_receive_settings that changes the configured duration while
\* the Timer is stopped makes remaining_ms and duration_ms the new duration
\* (durationSecs * 1000, saturating), leaves the timer stopped and leaves no
\* tick loop live.
C14_ChangeWhileStoppedResets ==
    [][/\ (SettingsStoreValue /\ ~running) =>
             /\ ctl.tmp = cfgSecs
             /\ value' = (IF cfgSecs * 1000 > WordMax THEN WordMax
                          ELSE cfgSecs * 1000)
             /\ duration_ms' = value' /\ duration_ms' # duration_ms
             /\ ~running' /\ Live' = {}
       /\ SettingsClear =>
             /\ UNCHANGED <<value, duration_ms, running>>
             /\ ~running' /\ Live' = {}]_vars

\* A paused Timer whose did_receive_settings carried another duration: the
\* value, paused at one tick, is now the new duration.
C14_Witness ==
    /\ IsTimer /\ ctl.pc = "drs_clear"
    /\ snap.has /\ ~snap.anchored /\ snap.v = TICK_MS
    /\ value = cfgSecs * 1000 /\ duration_ms = value /\ ~running

\* ------------------------------------------------------------ short press
\* C15: a short press toggles the tick loop.  With no loop live (Timer:
\* and remaining_ms > 0) key_up takes the start path and exactly one loop
\* is live after it; with a loop live key_up takes the stop path and no
\* loop is live after it.
C15_ShortPressToggles ==
    [][/\ (KeyUp /\ ~IsCounter /\ long_fired_press_id # active_press_id) =>
             /\ (Live = {} /\ (IsTimer => value > 0))
                   => ctl'.pc = "ku_start_load"
             /\ Live # {} => ctl'.pc = "ku_stop"
       /\ KeyUpStart => Cardinality(Live') = 1
       /\ KeyUpStopSave => Live' = {}]_vars

\* ------------------------------------------------------------ the Counter
\* C16: a Counter press whose operation is Divide with operand 0 leaves the
\* stored value unchanged, publishes no COUNTER_CHANGED event and does not
\* re-render, whatever the current value, on the short-press path (key_up)
\* and on the long-press path (the worker).
C16_DivideByZeroNoOp ==
    [][/\ (/\ KeyUpCounterWrite
           /\ cset.short_action = "divide" /\ cset.short_value = 0)
             => (UNCHANGED <<cstore, bus, display>> /\ ctl'.pc = "idle")
       /\ \A p \in Presses :
            (/\ WorkerWrite(p)
             /\ cset.long_action = "divide" /\ cset.long_value = 0)
               => UNCHANGED <<cstore, bus, display>>]_vars

\* A long press has set the counter to 5 and the short press after it has
\* divided by 0.
C16_Witness ==
    /\ IsCounter /\ cset.short_action = "divide" /\ cset.short_value = 0
    /\ press_seq = 2 /\ workers[1].fired /\ workers[2].up = "short"
    /\ ctl.pc = "idle"
    /\ cstore = write_counter(5) /\ display = render_number(5)

\* C17: a Counter press whose operation is Reset always writes the
\* configured initial value to the store, publishes COUNTER_CHANGED with
\* that value and re-renders it, even when the current value already equals
\* the initial value, on the short-press path and on the long-press path.
C17_ResetAlwaysPublishes ==
    [][/\ (KeyUpCounterWrite /\ cset.short_action = "reset") =>
             /\ cstore' = write_counter(cset.initial_value)
             /\ ctl' = [pc |-> "ku_cpublish", tmp |-> cset.initial_value]
       /\ (KeyUpCounterPublish /\ cset.short_action = "reset") =>
             /\ bus' = Append(bus, cset.initial_value)
             /\ ctl' = [pc |-> "ku_crender", tmp |-> cset.initial_value]
       /\ (KeyUpCounterRender /\ cset.short_action = "reset") =>
             display' = render_number(cset.initial_value)
       /\ \A p \in Presses :
            (WorkerWrite(p) /\ cset.long_action = "reset") =>
               /\ cstore' = write_counter(cset.initial_value)
               /\ bus' = Append(bus, cset.initial_value)
               /\ display' = render_number(cset.initial_value)]_vars

\* The counter holds its initial value; a short Reset and then a long Reset
\* have both been published.
C17_Witness ==
    /\ IsCounter /\ cset.short_action = "reset" /\ cset.long_action = "reset"
    /\ press_seq = 2 /\ workers[1].up = "short"
    /\ workers[2].fired /\ workers[2].pc = "done"
    /\ cstore = write_counter(cset.initial_value)
    /\ bus = <<cset.initial_value, cset.initial_value>>

\* The mathematical result of an operation fitted into i64: a sum, a
\* difference, a product or a quotient beyond a bound becomes that bound.
Saturated(op, base, n, init) ==
    CASE op = "none" -> base
      [] op = "add" -> Clamp(base + n)
      [] op = "subtract" -> Clamp(base - n)
      [] op = "multiply" ->
            IF base = 0 \/ n = 0 THEN 0
            ELSE IF Abs(base) <= (IntMax + 1) \div Abs(n) THEN Clamp(base * n)
            ELSE IF (base < 0) = (n < 0) THEN IntMax ELSE IntMin
      [] op = "divide" -> IF n = 0 THEN base ELSE Clamp(TruncDiv(base, n))
      [] op = "reset" -> init
      [] op = "set" -> n

\* C18: every counter operation applied to any i64 base and any i64 operand
\* yields a defined i64 result without faulting: the stored value after the
\* press is the exact result saturated at the i64 bounds, Divide of the
\* minimum value by -1 included.
C18_ApplySaturatesNeverFaults ==
    [][KeyUpCounterWrite =>
          /\ ctl'.pc # "panicked"
          /\ cstore'.v = Saturated(cset.short_action, ctl.tmp,
                                   cset.short_value, cset.initial_value)]_vars

\* ------------------------------------------------------------ the epoch
\* C19: the shared tick epoch never decreases, and it is written only by
\* the controller's handlers: no step of a long-press worker and no step of
\* a tick loop changes it.
C19_EpochOnlyByController ==
    [][/\ epoch' >= epoch
       /\ \A p \in Presses :
            (WorkerWake(p) \/ WorkerFired(p) \/ WorkerCancel(p)
                \/ WorkerValue(p)) => epoch' = epoch
       /\ \A i \in DOMAIN loops :
            (TickWake(i) \/ TickStore(i)) => epoch' = epoch]_vars

\* --------------------------------------------- final tick against reset
\* C20: when a count-down's final tick races the long-press reset, exactly
\* one of them is the effective writer.  Once the reset of the latest press
\* has completed (and that press did not also start a loop), remaining_ms
\* is not 0 and no expiry alert is showing: the loop the reset superseded
\* neither stores its 0 nor raises the alert afterwards.
C20_FinalTickOrReset ==
    \A p \in Presses :
        (/\ IsTimer
         /\ p = press_seq /\ workers[p].fired /\ workers[p].pc = "done"
         /\ workers[p].up # "short")
        => (value # 0 /\ alerts = 0)

\* ------------------------------------------------- snapshot and memory
\* C21: every transition that starts or stops a tick loop, and every
\* teardown, writes the snapshot, so whenever the button is quiescent (the
\* event thread idle, no long-press worker acting, no tick iteration in
\* flight) the snapshot carries an anchor iff a tick loop is live, and a
\* paused snapshot holds the current value.
C21_SnapshotAgrees ==
    (/\ ~IsCounter /\ ctl.pc = "idle" /\ ~Busy
     /\ \A q \in Presses : ~Acting(q))
    => /\ snap.anchored <=> Live # {}
       /\ (snap.has /\ ~snap.anchored) => snap.v = value

\* ------------------------------------------------- counter short press
\* C22: a Counter short press whose computed next value equals the value
\* read from the store, with an operation other than Reset, writes nothing,
\* publishes nothing and renders nothing; in every other case it writes
\* next, then publishes COUNTER_CHANGED with next, then renders next.
C22_ShortPressSuppressesNoChange ==
    [][/\ KeyUpCounterWrite =>
            LET base == ctl.tmp
                next == apply(cset.short_action, base, cset.short_value,
                              cset.initial_value)
            IN IF DivideOverflows(cset.short_action, base, cset.short_value)
               THEN TRUE
               ELSE IF next = base /\ cset.short_action # "reset"
               THEN UNCHANGED <<cstore, bus, display>> /\ ctl'.pc = "idle"
               ELSE /\ cstore' = write_counter(next)
                    /\ UNCHANGED <<bus, display>>
                    /\ ctl' = [pc |-> "ku_cpublish", tmp |-> next]
       /\ KeyUpCounterPublish =>
            /\ bus' = Append(bus, ctl.tmp)
            /\ UNCHANGED <<cstore, display>>
            /\ ctl' = [pc |-> "ku_crender", tmp |-> ctl.tmp]
       /\ KeyUpCounterRender =>
            /\ display' = render_number(ctl.tmp)
            /\ UNCHANGED <<cstore, bus>>
            /\ ctl'.pc = "idle"]_vars

\* Two short presses of "set 5" on a fresh counter, neither taken as a long
\* press: the first wrote, published and rendered 5, the second did nothing.
C22_Witness ==
    /\ IsCounter /\ cset.short_action = "set" /\ cset.short_value = 5
    /\ press_seq = 2 /\ workers[1].up = "short" /\ workers[2].up = "short"
    /\ ~workers[1].fired /\ ~workers[2].fired
    /\ ctl.pc = "idle"
    /\ cstore = write_counter(5) /\ bus = <<5>>
    /\ display = render_number(5)

\* ------------------------------------------------ short press at zero
\* C23: the release of a short press on a stopped Timer whose remaining_ms
\* is 0 is a complete no-op: key_up returns without starting a tick loop,
\* the epoch and the cancel flag are unchanged, running stays false, no
\* snapshot is written and nothing is rendered.
C23_ShortPressAtZeroNoOp ==
    [][/\ (/\ KeyUp /\ IsTimer /\ ~running
           /\ long_fired_press_id # active_press_id)
             => /\ ctl'.pc = "ku_start_load"
                /\ UNCHANGED <<value, cancel, epoch, epoch_seq, running,
                               snap, display, alerts, loops>>
       /\ (KeyUpStartLoad /\ IsTimer /\ value = 0)
             => /\ ctl'.pc = "idle" /\ ~running'
                /\ UNCHANGED <<value, cancel, epoch, epoch_seq, running,
                               snap, display, alerts, loops>>]_vars

\* The count-down expired, a first short press stopped it at 0, and a second
\* short press has been released: nothing moved.
C23_Witness ==
    /\ IsTimer /\ press_seq = 2
    /\ workers[1].up = "short" /\ workers[2].up = "short"
    /\ ~workers[1].fired /\ ~workers[2].fired
    /\ ctl.pc = "idle" /\ ~holding
    /\ value = 0 /\ ~running /\ Live = {} /\ loops = <<>>
    /\ snap = save_paused(0)

\* ------------------------------------------------------ render on ticks
\* The seconds a rendered time shows.
ShownSecs(d) ==
    IF Len(d) = 3 THEN d[1] * 3600 + d[2] * 60 + d[3] ELSE d[1] * 60 + d[2]

C25_NoLeakedThreads ==
    []<>(/\ \A i \in DOMAIN loops : ~Superseded(i)
         /\ Len(loops) <= 1
         /\ \A p \in Presses :
               workers[p].pc \in {"none", "done", "panicked"})

\* Two tick loops exist at once: one superseded and still asleep, and the
\* one a later short press started.
C25_Witness ==
    /\ Len(loops) = 2
    /\ Superseded(1) /\ ~Superseded(2)
    /\ press_seq = 2

\* ------------------------------------------------ clock before the anchor
\* C26: loading a running snapshot when the wall clock reads earlier than
\* the stored anchor takes the elapsed time as 0: load_state returns the
\* stored value unchanged with was_running = true, Timer and Stopwatch
\* alike.
C26_ClockBeforeAnchor ==
    [][(AnchorLoad /\ snap.anchored /\ now < snap.anchor)
          => (value' = snap.v /\ running')]_vars

\* A running value was saved, the clock went back behind the anchor, and
\* the load returned the saved value as running.
C26_Witness ==
    /\ ctl.pc = "a_save" /\ snap.anchored /\ now < snap.anchor
    /\ running /\ value = snap.v /\ value > 0

\* ------------------------------------------------------ saturating ticks
\* C27: each effective tick sets a Timer's remaining_ms to
\* max(0, remaining_ms - 100) and a Stopwatch's elapsed_ms to
\* min(2^64 - 1, elapsed_ms + 100) (here the top of the model's word);
\* the value never wraps below 0 or past the top of the word.
C27_TicksSaturate ==
    [][/\ \A i \in DOMAIN loops : TickStore(i) =>
            LET current == loops[i].cur
            IN value' = IF IsTimer
                        THEN (IF current - 100 > 0 THEN current - 100 ELSE 0)
                        ELSE (IF current + 100 < WordMax THEN current + 100
                              ELSE WordMax)
       /\ value' \in 0..WordMax]_vars

\* A Stopwatch loop that loaded a value within one tick of the top of the
\* word has stored the top of the word.
C27_Witness ==
    /\ IsStopwatch /\ value = WordMax /\ snap.v < WordMax
    /\ snap.v > WordMax - TICK_MS
    /\ loops # <<>> /\ loops[1].pc = "sleep"

\* ------------------------------------------------------------ two buttons
\* C28: buttons are independent.  Every handler step, worker step and tick
\* of one Timer/Stopwatch button leaves the second button's value, flags,
\* epochs and press state unchanged, and its save_paused, save_running and
\* clear_state leave the entry stored under the second button's context id
\* unchanged.
C28_ButtonsIndependent == [][peer' = peer]_vars

\* The first button has saved a paused snapshot under its own context id
\* after a restore and a stop, and later cleared it by a long-press reset;
\* the second button's anchored entry is still in the object.
C28_Witness ==
    /\ ~IsCounter /\ press_seq = 2
    /\ workers[1].up = "short" /\ workers[2].fired /\ workers[2].pc = "done"
    /\ timers[Self] = NoSnap
    /\ timers[Peer] = save_running(5 * 100, 0)
    /\ peer.running /\ peer.epoch = 1

\* ------------------------------------------------------ formula evaluator
\* C29: the formula evaluator returns a defined integer without faulting
\* for every token sequence and every variable assignment, the division of
\* the minimum i64 value by -1 included; in particular an expression whose
\* last operation is a division by the literal 0 evaluates to 0.
C29_EvaluatorTotal ==
    /\ ~(IsComputed /\ ctl.pc = "panicked")
    /\ (/\ IsComputed /\ ctl.pc = "idle" /\ ~settingsPending /\ bus = <<>>
        /\ Len(cset.expression) >= 2
        /\ cset.expression[Len(cset.expression)] = Op("div")
        /\ cset.expression[Len(cset.expression) - 1] = Num(0))
       => display = render_number(0)

\* ------------------------------------------------------- shared counter
\* C30: updates of a shared counter are not lost: when two Counter buttons
\* with the same counterId apply Add concurrently, one in key_up and one in
\* a long-press thread, then once both are through the stored value is the
\* initial value plus both operands, whatever the interleaving of their
\* read and write steps.
C30_NoLostUpdate ==
    (IsCounter /\ ctl.pc = "idle" /\ peer.pc = "done")
        => cstore = write_counter(cset.initial_value + cset.short_value
                                      + peer.long_value)

\* ------------------------------------------------------ shared displays
\* C31: whenever nothing is in progress (key_up through, the long-press
\* thread through, every published COUNTER_CHANGED delivered), each Counter
\* button bound to the key shows exactly the value stored for the key.
C31_DisplaysShowStored ==
    (/\ IsCounter /\ ctl.pc = "idle" /\ peer.pc = "done" /\ bus = <<>>)
        => /\ display = render_number(cstore.v)
           /\ peer.display = render_number(cstore.v)

\* ------------------------------------------------------- the running flag
\* C32: in every quiescent state of a Timer or Stopwatch (the event thread
\* idle, the key up, no long-press worker acting, no tick iteration in
\* flight) the controller's running flag is true iff a tick loop whose
\* captured epoch is the shared epoch, cancel being clear, is live; so it
\* is false after the count-down expired and after a long-press reset.
C32_RunningFlagAgrees ==
    (/\ ~IsCounter /\ ctl.pc = "idle" /\ ~Held /\ ~Busy
     /\ \A q \in Presses : ~Acting(q))
    => (running <=> Live # {})

\* ------------------------------------------------ key_up without key_down
\* C33: a key_up that no key_down preceded on this button instance (the
\* press counters still 0) changes no state: it starts no short-press
\* policy and leaves the counter value, the running flag, the tick loop
\* and the persisted snapshot as they were, also on a Timer or Stopwatch
\* that init has just restored as running.
C33_OrphanKeyUpNoOp ==
    [][KeyUpOrphan =>
          /\ ctl'.pc = "idle"
          /\ UNCHANGED <<running, value, cancel, epoch, loops, snap, cstore,
                         bus, display>>]_vars

\* ------------------------------------------------ settings, same duration
\* C34: did_receive_settings on a Timer whose configured duration equals
\* the current duration_ms never changes remaining_ms, the running flag,
\* the tick loop or the persisted snapshot, whatever the duration (60 s
\* included) and whatever the remaining value (0 after expiry included).
C34_SameDurationKeepsState ==
    [][/\ (/\ DidReceiveSettings /\ IsTimer
           /\ new_duration_ms(cfgSecs') = duration_ms)
          => UNCHANGED <<value, running, cancel, epoch, epoch_seq, loops,
                         snap, duration_ms>>
       /\ SettingsFirstInit
          => UNCHANGED <<value, running, cancel, epoch, epoch_seq, loops,
                         snap, duration_ms>>]_vars

====
